---- MODULE Spec2Model ----
(***************************************************************************)
(* Block scope of the REST API v0.2 (core/bin/zksync_api, rest/v02/block): *)
(* the three endpoints block_pagination, block_by_number and               *)
(* block_transactions over ApiBlockData { pool, cache }.                   *)
(*                                                                         *)
(* Every `.await` of a handler is a step boundary: storage transitions     *)
(* (blocks produced, changed, verified) and the steps of other requests    *)
(* interleave there.  The storage schema, the Paginate implementations and *)
(* BlockDetailsCache live outside block.rs; they are modelled from their   *)
(* documented contract.                                                    *)
(***************************************************************************)
EXTENDS Integers, Sequences, FiniteSets, TLC

VARIABLES
    blocks,     \* storage: block number -> BlockDetails, for 0..last committed
    txs,        \* storage: executed transactions; txs[h] = block number of tx hash h
    dbUp,       \* storage: whether the connection pool and its queries succeed
    cache,      \* ApiBlockData.cache: entries [key, val], least recently used first
    req,        \* per request: position in its handler, inputs, locals, response
    lastGet     \* history: the block_info call that ended last, if no other began since

vars == <<blocks, txs, dbUp, cache, req, lastGet>>

---------------------------------------------------------------------------
(* Bounds of the model *)

MaxBlock == 2
MaxVer == 1
MaxTxPerBlock == 2
MaxLimit == 2
CacheCapacity == 2

Requests == {1}

\* Requests served at the same time, each by a task of its own.
ConcurrentRequests == {1, 2}

---------------------------------------------------------------------------
(* Option and Result values *)

None == [tag |-> "None"]
Some(v) == [tag |-> "Some", val |-> v]
Ok(v) == [tag |-> "Ok", val |-> v]
Err(e) == [tag |-> "Err", err |-> e]

IsOk(x) == x.tag = "Ok"
IsErr(x) == x.tag = "Err"
IsSome(x) == x.tag = "Some"

\* Error::storage(err)
StorageError == "Storage"
\* Error::from(InvalidDataError::InvalidBlockPosition)
InvalidBlockPosition == "InvalidBlockPosition"

Min(a, b) == IF a < b THEN a ELSE b

RECURSIVE SetMax(_)
SetMax(S) ==
    LET x == CHOOSE y \in S : TRUE
    IN  IF S = {x} THEN x
        ELSE LET m == SetMax(S \ {x}) IN IF x > m THEN x ELSE m

RECURSIVE SetMin(_)
SetMin(S) ==
    LET x == CHOOSE y \in S : TRUE
    IN  IF S = {x} THEN x
        ELSE LET m == SetMin(S \ {x}) IN IF x < m THEN x ELSE m

\* The numbers of S in ascending order.
RECURSIVE Ascending(_)
Ascending(S) ==
    IF S = {} THEN <<>>
    ELSE LET m == SetMin(S) IN <<m>> \o Ascending(S \ {m})

\* The numbers of S in descending order.
RECURSIVE Descending(_)
Descending(S) ==
    IF S = {} THEN <<>>
    ELSE LET m == SetMax(S) IN <<m>> \o Descending(S \ {m})

Take(s, k) == SubSeq(s, 1, Min(k, Len(s)))

---------------------------------------------------------------------------
(* Block positions: the path segment {block_number}, a string.             *)
(* A string is the sequence of its characters.                             *)

Digits == <<"0", "1", "2", "3", "4", "5", "6", "7", "8", "9">>

IsDigit(c) == \E i \in 1..10 : Digits[i] = c

DigitVal(c) == (CHOOSE i \in 1..10 : Digits[i] = c) - 1

\* u32::MAX = 4294967295, as decimal digits (too large for the integers at hand).
U32MaxDigits == <<4, 2, 9, 4, 9, 6, 7, 2, 9, 5>>

RECURSIVE StripZeros(_)
StripZeros(ds) ==
    IF Len(ds) > 1 /\ ds[1] = 0 THEN StripZeros(Tail(ds)) ELSE ds

\* a > b for digit sequences of equal length
RECURSIVE DigitsGreater(_, _)
DigitsGreater(a, b) ==
    IF Len(a) = 0 THEN FALSE
    ELSE IF a[1] # b[1] THEN a[1] > b[1]
    ELSE DigitsGreater(Tail(a), Tail(b))

\* checked_mul(10) / checked_add(digit) overflow somewhere along the digits
\* exactly when the number they spell exceeds u32::MAX.
OverflowsU32(ds) ==
    LET s == StripZeros(ds)
    IN  \/ Len(s) > Len(U32MaxDigits)
        \/ Len(s) = Len(U32MaxDigits) /\ DigitsGreater(s, U32MaxDigits)

RECURSIVE DigitsValue(_, _)
DigitsValue(ds, acc) ==
    IF Len(ds) = 0 THEN acc ELSE DigitsValue(Tail(ds), acc * 10 + ds[1])

\* acc * 10 + d in wrapping u32 arithmetic, acc and the result as the pair of
\* their upper and lower 16 bits
WrappingStep(acc, d) ==
    LET lo == acc[2] * 10 + d
    IN  <<(acc[1] * 10 + lo \div 65536) % 65536, lo % 65536>>

RECURSIVE WrappingValue(_, _)
WrappingValue(ds, acc) ==
    IF Len(ds) = 0 THEN acc[1] * 65536 + acc[2]
    ELSE WrappingValue(Tail(ds), WrappingStep(acc, ds[1]))

\* The parse as it would be with wrapping_mul / wrapping_add in place of the
\* checked operations: a value past u32::MAX comes out modulo 2^32.
u32_from_str_wrapping(s) ==
    LET body == IF Len(s) > 1 /\ s[1] = "+" THEN Tail(s) ELSE s
    IN  IF Len(body) = 0 \/ \E i \in 1..Len(body) : ~IsDigit(body[i])
        THEN Err("ParseIntError")
        ELSE LET ds == [i \in 1..Len(body) |-> DigitVal(body[i])]
             IN  IF OverflowsU32(ds) THEN Ok(WrappingValue(ds, <<0, 0>>))
                 ELSE Ok(DigitsValue(ds, 0))

\* u32::from_str: an optional leading '+', then one or more decimal digits,
\* the value within u32.  Anything else (empty, '-', other characters,
\* overflow) is Err(ParseIntError).
u32_from_str(s) ==
    LET body == IF Len(s) > 1 /\ s[1] = "+" THEN Tail(s) ELSE s
    IN  IF Len(body) = 0 \/ \E i \in 1..Len(body) : ~IsDigit(body[i])
        THEN Err("ParseIntError")
        ELSE LET ds == [i \in 1..Len(body) |-> DigitVal(body[i])]
             IN  IF OverflowsU32(ds) THEN Err("ParseIntError")
                 ELSE Ok(DigitsValue(ds, 0))

LastCommittedStr ==
    <<"l", "a", "s", "t", "_", "c", "o", "m", "m", "i", "t", "t", "e", "d">>
LastFinalizedStr ==
    <<"l", "a", "s", "t", "_", "f", "i", "n", "a", "l", "i", "z", "e", "d">>

\* The decimal string of a small number (BlockNumber::to_string).
DecimalStr(n) == IF n < 10 THEN <<Digits[n + 1]>>
                 ELSE <<Digits[(n \div 10) + 1], Digits[(n % 10) + 1]>>

NumericPositions == {DecimalStr(n) : n \in 0..(MaxBlock + 1)}
                    \cup {<<"+", "1">>, <<"0", "0", "2">>}

KeywordPositions == {LastCommittedStr, LastFinalizedStr}

InvalidPositions ==
    { <<>>,
      <<"-", "1">>,
      <<"1", "a">>,
      <<"l", "a", "s", "t">>,
      <<"4", "2", "9", "4", "9", "6", "7", "2", "9", "6">> }

Positions == NumericPositions \cup KeywordPositions \cup InvalidPositions

\* The string of the decimal digits ds.
DigitChars(ds) == [i \in 1..Len(ds) |-> Digits[ds[i] + 1]]

\* Strings of decimal digits that spell a number past u32::MAX: the first
\* numbers after it, ten times 2^32, the largest of ten digits; with leading
\* zeros and with a sign.
OverflowPositions ==
    {DigitChars([U32MaxDigits EXCEPT ![10] = d]) : d \in 6..9}
    \cup {DigitChars(U32MaxDigits \o <<0>>),
          DigitChars(<<4, 2, 9, 4, 9, 6, 7, 2, 9, 6, 0>>),
          DigitChars(<<9, 9, 9, 9, 9, 9, 9, 9, 9, 9>>),
          DigitChars(<<0, 0>> \o [U32MaxDigits EXCEPT ![10] = 6]),
          <<"+">> \o DigitChars([U32MaxDigits EXCEPT ![10] = 7])}

\* Negative numbers.
NegativePositions ==
    {<<"-", "1">>, <<"-", "0">>, <<"-">> \o DigitChars(U32MaxDigits)}

\* Numbers within u32, one of them longer than u32::MAX is.
InRangePositions ==
    {DecimalStr(0), DecimalStr(1),
     DigitChars(<<2, 1, 4, 7, 4, 8, 3, 6, 4, 7>>),
     DigitChars(<<0, 0, 0, 0, 0, 0, 0, 0, 0, 0, 1>>)}

BoundaryPositions == OverflowPositions \cup NegativePositions \cup InRangePositions

---------------------------------------------------------------------------
(* Storage: the block schema behind ConnectionPool *)

\* zksync_storage BlockDetails, as far as this scope looks at it: the number,
\* is_verified(), and the data that may still change while the block is pending.
BlockDetails(n, verified, ver) ==
    [block_number |-> n, verified |-> verified, ver |-> ver]

GenesisBlock == BlockDetails(0, TRUE, 0)

\* block_schema().get_last_committed_block()
get_last_committed_block == SetMax(DOMAIN blocks)

\* block_schema().get_last_verified_confirmed_block()
get_last_verified_confirmed_block ==
    SetMax({n \in DOMAIN blocks : blocks[n].verified})

\* block_schema(): the details of block n, if the block exists
load_block(n) == IF n \in DOMAIN blocks THEN Some(blocks[n]) ELSE None

\* block_schema().get_block_transactions(n), as tx hashes
BlockTxs(n) == {h \in 1..Len(txs) : txs[h] = n}

\* BlockInfo::from(BlockDetails)
BlockInfoFrom(d) ==
    [block_number |-> d.block_number,
     finalized |-> d.verified,
     data |-> d.ver]

\* The api Transaction of tx hash h
TransactionOf(h) == [tx_hash |-> h, block_number |-> Some(txs[h])]

---------------------------------------------------------------------------
(* Pagination *)

Newer == "newer"
Older == "older"

PaginationQuery(from, limit, direction) ==
    [from |-> from, limit |-> limit, direction |-> direction]

\* Paginated::new(list, from, limit, direction, count)
Paginated(list, from, limit, direction, count) ==
    [list |-> list, from |-> from, limit |-> limit,
     direction |-> direction, count |-> count]

BlockAndTxHash(block_number, tx_hash) ==
    [block_number |-> block_number, tx_hash |-> tx_hash]

\* The cursors of S the query selects, nearest to query.from first.  The item
\* at `from` belongs to the page: tests::v02_test_block_scope pages from
\* block 1 and finds block 2 at list[1].
SelectPage(S, from, limit, direction) ==
    Take(IF direction = Newer
         THEN Ascending({c \in S : c >= from})
         ELSE Descending({c \in S : c <= from}),
         limit)

\* impl Paginate<BlockNumber>: storage.paginate(&query) over the blocks
paginate_blocks(query) ==
    LET sel == SelectPage(DOMAIN blocks, query.from, query.limit, query.direction)
    IN  Paginated([i \in 1..Len(sel) |-> BlockInfoFrom(blocks[sel[i]])],
                  query.from, query.limit, query.direction,
                  Cardinality(DOMAIN blocks))

\* impl Paginate<BlockAndTxHash>: storage.paginate(&query) over the
\* transactions of block query.from.block_number
paginate_transactions(query) ==
    LET scope == BlockTxs(query.from.block_number)
        sel == SelectPage(scope, query.from.tx_hash, query.limit, query.direction)
    IN  Paginated([i \in 1..Len(sel) |-> TransactionOf(sel[i])],
                  query.from, query.limit, query.direction,
                  Cardinality(scope))

---------------------------------------------------------------------------
(* BlockDetailsCache: a bounded, recency-ordered map BlockNumber -> BlockDetails *)

CacheKeys(c) == {c[i].key : i \in DOMAIN c}

CacheIndex(c, k) == CHOOSE i \in DOMAIN c : c[i].key = k

CacheValue(c, k) == c[CacheIndex(c, k)].val

RemoveAt(c, i) == SubSeq(c, 1, i - 1) \o SubSeq(c, i + 1, Len(c))

\* a hit makes the entry the most recently used
CachePromote(c, k) ==
    LET i == CacheIndex(c, k) IN Append(RemoveAt(c, i), c[i])

\* The insert as it would be if it did not look for an entry another caller
\* has stored for the key since this caller's miss.
CacheInsert_unchecked(c, k, v) ==
    Append(IF Len(c) >= CacheCapacity THEN Tail(c) ELSE c,
           [key |-> k, val |-> v])

\* The insert as it would be if the cache grew without bound.
CacheInsert_unbounded(c, k, v) ==
    Append(IF k \in CacheKeys(c) THEN RemoveAt(c, CacheIndex(c, k)) ELSE c,
           [key |-> k, val |-> v])

\* insert, evicting the least recently used entry of a full cache
CacheInsert(c, k, v) ==
    LET base == IF k \in CacheKeys(c) THEN RemoveAt(c, CacheIndex(c, k))
                ELSE IF Len(c) >= CacheCapacity THEN Tail(c)
                ELSE c
    IN  Append(base, [key |-> k, val |-> v])

\* A step of BlockDetailsCache::get: where the call is next, the cache after
\* it, the block it holds for the insert, its return value once it returns,
\* and the storage operations the step made.
GetStep(pc, c, fetched, ret, ops) ==
    [pc |-> pc, cache |-> c, fetched |-> fetched, ret |-> ret, ops |-> ops]

\* BlockDetailsCache::get as it would be if it stored every block it loads,
\* verified or not.
BlockDetailsCache_get_any_block(r) ==
    LET n == req[r].resolved.val
    IN  CASE req[r].pc = "lookup" ->
               IF n \in CacheKeys(cache)
               THEN {GetStep("done", CachePromote(cache, n), None,
                             Some(Ok(Some(CacheValue(cache, n)))), {})}
               ELSE {GetStep("fetch", cache, None, None, {})}
          [] req[r].pc = "fetch" ->
               IF ~dbUp
               THEN {GetStep("done", cache, None, Some(Err("db")), {"load_block"})}
               ELSE IF load_block(n) = None
               THEN {GetStep("done", cache, None, Some(Ok(None)), {"load_block"})}
               ELSE {GetStep("insert", cache, load_block(n), None, {"load_block"})}
          [] req[r].pc = "insert" ->
               {GetStep("done", CacheInsert(cache, n, req[r].fetched.val), None,
                        Some(Ok(req[r].fetched)), {})}
          [] OTHER -> {}

\* One step of BlockDetailsCache::get(pool, block_number) for request r, from
\* its position req[r].pc: the lookup under the lock, the fetch from storage on
\* a miss, the insert of a verified block.  `ret` is the call's return value
\* once it returns.
BlockDetailsCache_get(r) ==
    LET n == req[r].resolved.val
    IN  CASE req[r].pc = "lookup" ->
               IF n \in CacheKeys(cache)
               THEN {GetStep("done", CachePromote(cache, n), None,
                          Some(Ok(Some(CacheValue(cache, n)))), {})}
               ELSE {GetStep("fetch", cache, None, None, {})}
          [] req[r].pc = "fetch" ->
               IF ~dbUp
               THEN {GetStep("done", cache, None, Some(Err("db")), {"load_block"})}
               ELSE IF load_block(n) = None
               THEN {GetStep("done", cache, None, Some(Ok(None)), {"load_block"})}
               ELSE IF load_block(n).val.verified
               THEN {GetStep("insert", cache, load_block(n), None, {"load_block"})}
               ELSE {GetStep("done", cache, None, Some(Ok(load_block(n))),
                          {"load_block"})}
          [] req[r].pc = "insert" ->
               {GetStep("done", CacheInsert(cache, n, req[r].fetched.val), None,
                     Some(Ok(req[r].fetched)), {})}
          [] OTHER -> {}

---------------------------------------------------------------------------
(* ApiBlockData *)

HeadOps == {"get_last_committed_block", "get_last_verified_confirmed_block"}

\* A call's return value with the storage operations it made.
Returned(res, ops) == [res |-> res, ops |-> ops]

\* get_last_committed_block_number as it would be if it asked the schema for
\* the verified head, as get_last_finalized_block_number does.
get_last_committed_block_number_verified ==
    Returned(IF dbUp THEN Ok(get_last_verified_confirmed_block) ELSE Err("db"),
             {"get_last_committed_block"})

\* ApiBlockData::get_last_committed_block_number
get_last_committed_block_number ==
    Returned(IF dbUp THEN Ok(get_last_committed_block) ELSE Err("db"),
             {"get_last_committed_block"})

\* ApiBlockData::get_last_finalized_block_number
get_last_finalized_block_number ==
    Returned(IF dbUp THEN Ok(get_last_verified_confirmed_block) ELSE Err("db"),
             {"get_last_verified_confirmed_block"})

\* get_block_number_by_position as it would be if it checked a number against
\* the committed head.
get_block_number_by_position_checked(block_position) ==
    IF IsOk(u32_from_str(block_position))
    THEN Returned(IF ~dbUp THEN Err(StorageError)
                  ELSE IF u32_from_str(block_position).val > get_last_committed_block
                  THEN Err(InvalidBlockPosition)
                  ELSE Ok(u32_from_str(block_position).val),
                  {"get_last_committed_block"})
    ELSE IF block_position = LastCommittedStr
    THEN Returned(IF dbUp THEN Ok(get_last_committed_block) ELSE Err(StorageError),
                  {"get_last_committed_block"})
    ELSE IF block_position = LastFinalizedStr
    THEN Returned(IF dbUp THEN Ok(get_last_verified_confirmed_block)
                  ELSE Err(StorageError),
                  {"get_last_verified_confirmed_block"})
    ELSE Returned(Err(InvalidBlockPosition), {})

\* get_block_number_by_position as it would be if its last arm took any other
\* string for the committed head.
get_block_number_by_position_lenient(block_position) ==
    IF IsOk(u32_from_str(block_position))
    THEN Returned(Ok(u32_from_str(block_position).val), {})
    ELSE IF block_position = LastFinalizedStr
    THEN Returned(IF dbUp THEN Ok(get_last_verified_confirmed_block)
                  ELSE Err(StorageError),
                  {"get_last_verified_confirmed_block"})
    ELSE Returned(IF dbUp THEN Ok(get_last_committed_block) ELSE Err(StorageError),
                  {"get_last_committed_block"})

\* ApiBlockData::get_block_number_by_position
get_block_number_by_position(block_position) ==
    IF IsOk(u32_from_str(block_position))
    THEN Returned(Ok(u32_from_str(block_position).val), {})
    ELSE IF block_position = LastCommittedStr
    THEN LET q == get_last_committed_block_number
         IN  Returned(IF IsOk(q.res) THEN Ok(q.res.val) ELSE Err(StorageError),
                      q.ops)
    ELSE IF block_position = LastFinalizedStr
    THEN LET q == get_last_finalized_block_number
         IN  Returned(IF IsOk(q.res) THEN Ok(q.res.val) ELSE Err(StorageError),
                      q.ops)
    ELSE Returned(Err(InvalidBlockPosition), {})

\* block_info as it would be if it loaded the block from the pool itself.
block_info_uncached(r) ==
    CASE req[r].pc = "lookup" -> {GetStep("fetch", cache, None, None, {})}
      [] req[r].pc = "fetch" ->
           {GetStep("done", cache, None,
                    Some(IF dbUp THEN Ok(load_block(req[r].resolved.val))
                         ELSE Err(StorageError)),
                    {"load_block"})}
      [] OTHER -> {}

\* ApiBlockData::block_info: one step of self.cache.get(&self.pool, block_number),
\* its error mapped by Error::storage
block_info(r) ==
    { [o EXCEPT !.ret = IF IsSome(@) /\ IsErr(@.val)
                        THEN Some(Err(StorageError)) ELSE @]
      : o \in BlockDetailsCache_get(r) }

\* block_page as it would be if a page of newer blocks began after query.from.
block_page_after_from(query) ==
    Returned(IF ~dbUp THEN Err(StorageError)
             ELSE Ok([paginate_blocks(
                          IF query.direction = Newer
                          THEN [query EXCEPT !.from = @ + 1] ELSE query)
                      EXCEPT !.from = query.from]),
             {"paginate"})

\* block_page as it would be if it returned the items of the page last first.
block_page_reversed(query) ==
    LET page == paginate_blocks(query)
    IN  Returned(IF ~dbUp THEN Err(StorageError)
                 ELSE Ok([page EXCEPT !.list =
                             [i \in 1..Len(page.list) |->
                                 page.list[Len(page.list) + 1 - i]]]),
                 {"paginate"})

\* ApiBlockData::block_page
block_page(query) ==
    Returned(IF ~dbUp THEN Err(StorageError) ELSE Ok(paginate_blocks(query)),
             {"paginate"})

\* transaction_page as it would be if it asked for one item more than the limit.
transaction_page_one_more(block_number, query) ==
    LET new_query ==
            PaginationQuery(BlockAndTxHash(block_number, query.from),
                            query.limit + 1, query.direction)
    IN  Returned(IF ~dbUp THEN Err(StorageError)
                 ELSE Ok(paginate_transactions(new_query)),
                 {"paginate"})

\* transaction_page as it would be if it took the block before the resolved one.
transaction_page_block_before(block_number, query) ==
    LET new_query ==
            PaginationQuery(
                BlockAndTxHash(IF block_number > 0 THEN block_number - 1 ELSE 0,
                               query.from),
                query.limit, query.direction)
    IN  Returned(IF ~dbUp THEN Err(StorageError)
                 ELSE Ok(paginate_transactions(new_query)),
                 {"paginate"})

\* transaction_page as it would be if it left the direction at its default.
transaction_page_newer(block_number, query) ==
    LET new_query ==
            PaginationQuery(BlockAndTxHash(block_number, query.from),
                            query.limit, Newer)
    IN  Returned(IF ~dbUp THEN Err(StorageError)
                 ELSE Ok(paginate_transactions(new_query)),
                 {"paginate"})

\* transaction_page as it would be if it counted the items of the page it
\* returns instead of passing on the count of the block's transactions.
transaction_page_count_listed(block_number, query) ==
    LET new_query ==
            PaginationQuery(BlockAndTxHash(block_number, query.from),
                            query.limit, query.direction)
        page == paginate_transactions(new_query)
    IN  Returned(IF ~dbUp THEN Err(StorageError)
                 ELSE Ok([page EXCEPT !.count = Len(page.list)]),
                 {"paginate"})

\* transaction_page as it would be if it answered a failed storage with an
\* empty page.
transaction_page_empty_on_failure(block_number, query) ==
    LET new_query ==
            PaginationQuery(BlockAndTxHash(block_number, query.from),
                            query.limit, query.direction)
    IN  Returned(IF ~dbUp
                 THEN Ok(Paginated(<<>>, new_query.from, new_query.limit,
                                   new_query.direction, 0))
                 ELSE Ok(paginate_transactions(new_query)),
                 {"paginate"})

\* ApiBlockData::transaction_page
transaction_page(block_number, query) ==
    LET new_query ==
            PaginationQuery(BlockAndTxHash(block_number, query.from),
                            query.limit, query.direction)
    IN  Returned(IF ~dbUp THEN Err(StorageError)
                 ELSE Ok(paginate_transactions(new_query)),
                 {"paginate"})

---------------------------------------------------------------------------
(* Requests *)

NoQuery == PaginationQuery(0, 0, Newer)

\* lastGet where the history of block_info calls is not kept
NoHistory == [tag |-> "NoHistory"]

IdleReq ==
    [pc |-> "idle", kind |-> "none", pos |-> <<>>, query |-> NoQuery,
     resolved |-> None, fetched |-> None, prev |-> None, ops |-> {},
     info |-> None, resp |-> None]

Directions == {Newer, Older}

BlockQueries ==
    {PaginationQuery(f, l, d) :
        f \in 0..(MaxBlock + 1), l \in 0..MaxLimit, d \in Directions}

TxQueries ==
    {PaginationQuery(h, l, d) :
        h \in 0..(MaxBlock * MaxTxPerBlock + 1), l \in 0..MaxLimit, d \in Directions}

\* The mapping as it would be if a missing block were made an error.
MapBlockInfo_absent_is_error(x) ==
    IF IsOk(x)
    THEN IF IsSome(x.val) THEN Ok(Some(BlockInfoFrom(x.val.val)))
         ELSE Err("BlockNotFound")
    ELSE x

\* details.map(BlockInfo::from) under Result::map
MapBlockInfo(x) ==
    IF IsOk(x)
    THEN Ok(IF IsSome(x.val) THEN Some(BlockInfoFrom(x.val.val)) ELSE None)
    ELSE x

Init ==
    /\ blocks = [n \in {0} |-> GenesisBlock]
    /\ txs = <<>>
    /\ dbUp = TRUE
    /\ cache = <<>>
    /\ req = [r \in Requests |-> IdleReq]
    /\ lastGet = None

\* As Init, with a task for each of the requests served at the same time.
\* No property of concurrent requests reads the history: it is not kept.
InitConcurrent ==
    /\ blocks = [n \in {0} |-> GenesisBlock]
    /\ txs = <<>>
    /\ dbUp = TRUE
    /\ cache = <<>>
    /\ req = [r \in ConcurrentRequests |-> IdleReq]
    /\ lastGet = NoHistory

\* A request arrives: actix extracts the path and the query and calls the handler.
StartBlockPagination(r) ==
    /\ req[r].pc = "idle"
    /\ \E q \in BlockQueries :
         req' = [req EXCEPT ![r] =
             [IdleReq EXCEPT !.pc = "page", !.kind = "block_pagination",
                             !.query = q]]
    /\ UNCHANGED <<blocks, txs, dbUp, cache, lastGet>>

\* GET block/{block_number} arrives with a position of the set `positions`.
StartBlockByNumberFrom(r, positions) ==
    /\ req[r].pc = "idle"
    /\ \E p \in positions :
         req' = [req EXCEPT ![r] =
             [IdleReq EXCEPT !.pc = "resolve", !.kind = "block_by_number",
                             !.pos = p]]
    /\ UNCHANGED <<blocks, txs, dbUp, cache, lastGet>>

StartBlockByNumber(r) == StartBlockByNumberFrom(r, Positions)

\* GET block/{block_number}/transaction arrives with a position of the set
\* `positions`.
StartBlockTransactionsFrom(r, positions) ==
    /\ req[r].pc = "idle"
    /\ \E p \in positions :
         req' = [req EXCEPT ![r] =
             [IdleReq EXCEPT !.pc = "resolve", !.kind = "block_transactions",
                             !.pos = p]]
    /\ UNCHANGED <<blocks, txs, dbUp, cache, lastGet>>

StartBlockTransactions(r) == StartBlockTransactionsFrom(r, Positions)

\* block_pagination
block_pagination(r) ==
    /\ req[r].kind = "block_pagination"
    /\ req[r].pc = "page"
    /\ LET out == block_page(req[r].query)
       IN  req' = [req EXCEPT ![r].pc = "done",
                              ![r].ops = @ \cup out.ops,
                              ![r].resp = out.res]
    /\ UNCHANGED <<blocks, txs, dbUp, cache, lastGet>>

\* block_by_number as it would be if a failed resolution fell back to
\* BlockNumber::default() instead of returning.
block_by_number_default_on_err(r) ==
    /\ req[r].kind = "block_by_number"
    /\ \/ /\ req[r].pc = "resolve"
          /\ LET out == get_block_number_by_position(req[r].pos)
             IN  req' = [req EXCEPT
                     ![r].pc = "lookup",
                     ![r].resolved = IF IsOk(out.res) THEN out.res ELSE Ok(0),
                     ![r].ops = @ \cup out.ops]
          /\ UNCHANGED <<cache, lastGet>>
       \/ /\ req[r].pc \in {"lookup", "fetch", "insert"}
          /\ \E o \in block_info(r) :
               /\ cache' = o.cache
               /\ req' = [req EXCEPT
                      ![r].pc = o.pc,
                      ![r].fetched = o.fetched,
                      ![r].ops = @ \cup o.ops,
                      ![r].prev = IF req[r].pc = "lookup" THEN lastGet ELSE @,
                      ![r].info = IF IsSome(o.ret) THEN o.ret.val ELSE @,
                      ![r].resp = IF IsSome(o.ret) THEN MapBlockInfo(o.ret.val)
                                  ELSE @]
               /\ lastGet' =
                      IF lastGet = NoHistory THEN lastGet
                      ELSE IF IsSome(o.ret)
                      THEN Some([num |-> req[r].resolved.val, info |-> o.ret.val,
                                 dropped |-> CacheKeys(cache) \ CacheKeys(o.cache)])
                      ELSE IF req[r].pc = "lookup" THEN None
                      ELSE lastGet
    /\ UNCHANGED <<blocks, txs, dbUp>>

\* block_by_number as it would be if it resolved the position again when it
\* came to load the block.
block_by_number_resolves_again(r) ==
    /\ req[r].kind = "block_by_number"
    /\ \/ /\ req[r].pc = "resolve"
          /\ LET out == get_block_number_by_position(req[r].pos)
             IN  req' = [req EXCEPT
                     ![r].pc = IF IsOk(out.res) THEN "lookup" ELSE "done",
                     ![r].resolved = out.res,
                     ![r].ops = @ \cup out.ops,
                     ![r].resp = IF IsOk(out.res) THEN @ ELSE out.res]
          /\ UNCHANGED <<cache, lastGet>>
       \/ /\ req[r].pc \in {"lookup", "fetch", "insert"}
          /\ \E o \in block_info(r) :
               /\ cache' = o.cache
               /\ req' = [req EXCEPT
                      ![r].pc = o.pc,
                      ![r].resolved =
                          IF /\ o.pc = "fetch"
                             /\ IsOk(get_block_number_by_position(req[r].pos).res)
                          THEN get_block_number_by_position(req[r].pos).res
                          ELSE @,
                      ![r].fetched = o.fetched,
                      ![r].ops = @ \cup o.ops,
                      ![r].prev = IF req[r].pc = "lookup" THEN lastGet ELSE @,
                      ![r].info = IF IsSome(o.ret) THEN o.ret.val ELSE @,
                      ![r].resp = IF IsSome(o.ret) THEN MapBlockInfo(o.ret.val)
                                  ELSE @]
               /\ lastGet' =
                      IF lastGet = NoHistory THEN lastGet
                      ELSE IF IsSome(o.ret)
                      THEN Some([num |-> req[r].resolved.val, info |-> o.ret.val,
                                 dropped |-> CacheKeys(cache) \ CacheKeys(o.cache)])
                      ELSE IF req[r].pc = "lookup" THEN None
                      ELSE lastGet
    /\ UNCHANGED <<blocks, txs, dbUp>>

\* block_by_number.  lastGet and prev record which block_info call directly
\* follows which: lastGet is the call that returned last (the number it was
\* for, what it returned, the keys its last step removed from the cache), until
\* the next one begins; prev is what a call found there when it began.
block_by_number(r) ==
    /\ req[r].kind = "block_by_number"
    /\ \/ /\ req[r].pc = "resolve"
          /\ LET out == get_block_number_by_position(req[r].pos)
             IN  req' = [req EXCEPT
                     ![r].pc = IF IsOk(out.res) THEN "lookup" ELSE "done",
                     ![r].resolved = out.res,
                     ![r].ops = @ \cup out.ops,
                     ![r].resp = IF IsOk(out.res) THEN @ ELSE out.res]
          /\ UNCHANGED <<cache, lastGet>>
       \/ /\ req[r].pc \in {"lookup", "fetch", "insert"}
          /\ \E o \in block_info(r) :
               /\ cache' = o.cache
               /\ req' = [req EXCEPT
                      ![r].pc = o.pc,
                      ![r].fetched = o.fetched,
                      ![r].ops = @ \cup o.ops,
                      ![r].prev = IF req[r].pc = "lookup" THEN lastGet ELSE @,
                      ![r].info = IF IsSome(o.ret) THEN o.ret.val ELSE @,
                      ![r].resp = IF IsSome(o.ret) THEN MapBlockInfo(o.ret.val)
                                  ELSE @]
               /\ lastGet' =
                      IF lastGet = NoHistory THEN lastGet
                      ELSE IF IsSome(o.ret)
                      THEN Some([num |-> req[r].resolved.val, info |-> o.ret.val,
                                 dropped |-> CacheKeys(cache) \ CacheKeys(o.cache)])
                      ELSE IF req[r].pc = "lookup" THEN None
                      ELSE lastGet
    /\ UNCHANGED <<blocks, txs, dbUp>>

\* block_transactions as it would be if it stored the details of a verified
\* block it lists in the cache.
block_transactions_caches_block(r) ==
    /\ req[r].kind = "block_transactions"
    /\ \/ /\ req[r].pc = "resolve"
          /\ LET out == get_block_number_by_position(req[r].pos)
             IN  req' = [req EXCEPT
                     ![r].pc = IF IsOk(out.res) THEN "page" ELSE "done",
                     ![r].resolved = out.res,
                     ![r].ops = @ \cup out.ops,
                     ![r].resp = IF IsOk(out.res) THEN @ ELSE out.res]
          /\ cache' = cache
       \/ /\ req[r].pc = "page"
          /\ \E query \in TxQueries :
               LET out == transaction_page(req[r].resolved.val, query)
               IN  req' = [req EXCEPT ![r].pc = "done",
                                      ![r].query = query,
                                      ![r].ops = @ \cup out.ops,
                                      ![r].resp = out.res]
          /\ cache' =
                 LET b == load_block(req[r].resolved.val)
                 IN  IF dbUp /\ IsSome(b) /\ b.val.verified
                     THEN CacheInsert(cache, req[r].resolved.val, b.val)
                     ELSE cache
    /\ UNCHANGED <<blocks, txs, dbUp, lastGet>>

\* block_transactions.  The query travels with the request but is first read
\* by transaction_page: it is drawn there.
block_transactions(r) ==
    /\ req[r].kind = "block_transactions"
    /\ \/ /\ req[r].pc = "resolve"
          /\ LET out == get_block_number_by_position(req[r].pos)
             IN  req' = [req EXCEPT
                     ![r].pc = IF IsOk(out.res) THEN "page" ELSE "done",
                     ![r].resolved = out.res,
                     ![r].ops = @ \cup out.ops,
                     ![r].resp = IF IsOk(out.res) THEN @ ELSE out.res]
       \/ /\ req[r].pc = "page"
          /\ \E query \in TxQueries :
               LET out == transaction_page(req[r].resolved.val, query)
               IN  req' = [req EXCEPT ![r].pc = "done",
                                      ![r].query = query,
                                      ![r].ops = @ \cup out.ops,
                                      ![r].resp = out.res]
    /\ UNCHANGED <<blocks, txs, dbUp, cache, lastGet>>

\* The client goes away: the handler's future is dropped at the await it is at.
Cancel(r) ==
    /\ req[r].pc \in {"resolve", "lookup", "fetch", "insert", "page"}
    /\ req' = [req EXCEPT ![r] = IdleReq]
    /\ UNCHANGED <<blocks, txs, dbUp, cache, lastGet>>

\* The response is sent.
Respond(r) ==
    /\ req[r].pc = "done"
    /\ req' = [req EXCEPT ![r] = IdleReq]
    /\ UNCHANGED <<blocks, txs, dbUp, cache, lastGet>>

\* A handler that has returned sends its response before anything else runs:
\* nothing that could interleave there can be seen through the response.
Responding == \E r \in DOMAIN req : req[r].pc = "done"

---------------------------------------------------------------------------
(* The chain behind the storage: not part of this scope, but what it reads *)

\* A block with k transactions is committed; it is pending.
ProduceBlock(k) ==
    /\ get_last_committed_block < MaxBlock
    /\ LET n == get_last_committed_block + 1
       IN  /\ blocks' = [m \in 0..n |->
                            IF m < n THEN blocks[m] ELSE BlockDetails(n, FALSE, 0)]
           /\ txs' = txs \o [i \in 1..k |-> n]
    /\ UNCHANGED <<dbUp, cache, req, lastGet>>

\* The details of a pending block change.
UpdatePending ==
    /\ \E n \in DOMAIN blocks :
         /\ ~blocks[n].verified
         /\ blocks[n].ver < MaxVer
         /\ blocks' = [blocks EXCEPT ![n].ver = @ + 1]
    /\ UNCHANGED <<txs, dbUp, cache, req, lastGet>>

\* The next block is verified; its details are final.
VerifyBlock ==
    /\ get_last_verified_confirmed_block < get_last_committed_block
    /\ blocks' = [blocks EXCEPT
                     ![get_last_verified_confirmed_block + 1].verified = TRUE]
    /\ UNCHANGED <<txs, dbUp, cache, req, lastGet>>

DbFail ==
    /\ dbUp
    /\ dbUp' = FALSE
    /\ UNCHANGED <<blocks, txs, cache, req, lastGet>>

DbRecover ==
    /\ ~dbUp
    /\ dbUp' = TRUE
    /\ UNCHANGED <<blocks, txs, cache, req, lastGet>>

---------------------------------------------------------------------------
(* Specifications *)

\* The whole scope.
Next ==
    \/ \E r \in Requests : Respond(r)
    \/ ~Responding /\ \E r \in Requests : StartBlockPagination(r)
    \/ ~Responding /\ \E r \in Requests : StartBlockByNumber(r)
    \/ ~Responding /\ \E r \in Requests : StartBlockTransactions(r)
    \/ ~Responding /\ \E r \in Requests : block_pagination(r)
    \/ ~Responding /\ \E r \in Requests : block_by_number(r)
    \/ ~Responding /\ \E r \in Requests : block_transactions(r)
    \/ ~Responding /\ \E r \in Requests : Cancel(r)
    \/ ~Responding /\ \E k \in 0..MaxTxPerBlock : ProduceBlock(k)
    \/ ~Responding /\ UpdatePending
    \/ ~Responding /\ VerifyBlock
    \/ ~Responding /\ DbFail
    \/ ~Responding /\ DbRecover

Spec == Init /\ [][Next]_vars

\* GET block/{block_number} alone.  block_by_number reads no transaction:
\* blocks are produced empty.
NextGet ==
    \/ \E r \in Requests : Respond(r)
    \/ ~Responding /\ \E r \in Requests : StartBlockByNumber(r)
    \/ ~Responding /\ \E r \in Requests : block_by_number(r)
    \/ ~Responding /\ \E r \in Requests : Cancel(r)
    \/ ~Responding /\ ProduceBlock(0)
    \/ ~Responding /\ UpdatePending
    \/ ~Responding /\ VerifyBlock
    \/ ~Responding /\ DbFail
    \/ ~Responding /\ DbRecover

SpecGet == Init /\ [][NextGet]_vars

\* GET block and GET block/{block_number}/transaction: the listings.
NextPage ==
    \/ \E r \in Requests : Respond(r)
    \/ ~Responding /\ \E r \in Requests : StartBlockPagination(r)
    \/ ~Responding /\ \E r \in Requests : StartBlockTransactions(r)
    \/ ~Responding /\ \E r \in Requests : block_pagination(r)
    \/ ~Responding /\ \E r \in Requests : block_transactions(r)
    \/ ~Responding /\ \E r \in Requests : Cancel(r)
    \/ ~Responding /\ \E k \in 0..MaxTxPerBlock : ProduceBlock(k)
    \/ ~Responding /\ VerifyBlock
    \/ ~Responding /\ DbFail
    \/ ~Responding /\ DbRecover

SpecPage == Init /\ [][NextPage]_vars

\* The two handlers that resolve a block position, over blocks of one
\* transaction whose details do not change while pending.
NextResolve ==
    \/ \E r \in Requests : Respond(r)
    \/ ~Responding /\ \E r \in Requests : StartBlockByNumber(r)
    \/ ~Responding /\ \E r \in Requests : StartBlockTransactions(r)
    \/ ~Responding /\ \E r \in Requests : block_by_number(r)
    \/ ~Responding /\ \E r \in Requests : block_transactions(r)
    \/ ~Responding /\ \E r \in Requests : Cancel(r)
    \/ ~Responding /\ ProduceBlock(1)
    \/ ~Responding /\ VerifyBlock
    \/ ~Responding /\ DbFail
    \/ ~Responding /\ DbRecover

SpecResolve == Init /\ [][NextResolve]_vars

\* The three endpoints together, over blocks of one transaction whose details
\* do not change while pending.
NextScope ==
    \/ \E r \in Requests : Respond(r)
    \/ ~Responding /\ \E r \in Requests : StartBlockPagination(r)
    \/ ~Responding /\ \E r \in Requests : StartBlockByNumber(r)
    \/ ~Responding /\ \E r \in Requests : StartBlockTransactions(r)
    \/ ~Responding /\ \E r \in Requests : block_pagination(r)
    \/ ~Responding /\ \E r \in Requests : block_by_number(r)
    \/ ~Responding /\ \E r \in Requests : block_transactions(r)
    \/ ~Responding /\ \E r \in Requests : Cancel(r)
    \/ ~Responding /\ ProduceBlock(1)
    \/ ~Responding /\ VerifyBlock
    \/ ~Responding /\ DbFail
    \/ ~Responding /\ DbRecover

SpecScope == Init /\ [][NextScope]_vars

\* The two handlers that resolve a block position, with positions around the
\* ends of u32.
NextBoundary ==
    \/ \E r \in Requests : Respond(r)
    \/ ~Responding /\ \E r \in Requests :
                          StartBlockByNumberFrom(r, BoundaryPositions)
    \/ ~Responding /\ \E r \in Requests :
                          StartBlockTransactionsFrom(r, BoundaryPositions)
    \/ ~Responding /\ \E r \in Requests : block_by_number(r)
    \/ ~Responding /\ \E r \in Requests : block_transactions(r)
    \/ ~Responding /\ \E r \in Requests : Cancel(r)
    \/ ~Responding /\ ProduceBlock(1)
    \/ ~Responding /\ VerifyBlock
    \/ ~Responding /\ DbFail
    \/ ~Responding /\ DbRecover

SpecBoundary == Init /\ [][NextBoundary]_vars

\* The numeric positions of the blocks there may be, as decimal strings.
BlockPositions == {DecimalStr(n) : n \in 0..MaxBlock}

\* GET block/{block_number}, two requests at a time, for the blocks there may
\* be: between any two steps of one request the other may take steps, and so
\* may the storage.
NextConcurrent ==
    \/ \E r \in ConcurrentRequests : Respond(r)
    \/ ~Responding /\ \E r \in ConcurrentRequests :
                          StartBlockByNumberFrom(r, BlockPositions)
    \/ ~Responding /\ \E r \in ConcurrentRequests : block_by_number(r)
    \/ ~Responding /\ \E r \in ConcurrentRequests : Cancel(r)
    \/ ~Responding /\ ProduceBlock(0)
    \/ ~Responding /\ UpdatePending
    \/ ~Responding /\ VerifyBlock
    \/ ~Responding /\ DbFail
    \/ ~Responding /\ DbRecover

SpecConcurrent == InitConcurrent /\ [][NextConcurrent]_vars

---------------------------------------------------------------------------
(* Properties *)

Done(r) == req[r].pc = "done"

\* request r has returned from block_by_number having called block_info
GotBlock(r) ==
    /\ Done(r)
    /\ req[r].kind = "block_by_number"
    /\ IsOk(req[r].resolved)

\* the block number request r resolved
Number(r) == req[r].resolved.val

\* request r's block_info call directly followed a block_info call for the
\* same block number: no other block_info call began or returned in between
Followed(r) ==
    /\ IsOk(req[r].resolved)
    /\ IsSome(req[r].prev)
    /\ req[r].prev.val.num = Number(r)

\* what the call that request r's call followed returned
Before(r) == req[r].prev.val.info

IsVerifiedInfo(x) == IsOk(x) /\ IsSome(x.val) /\ x.val.val.verified
IsPendingInfo(x) == IsOk(x) /\ IsSome(x.val) /\ ~x.val.val.verified

BlockNumbers == 0..(MaxBlock + 1)

\* C1: when a block_info call for a block number returned the details of a
\* verified block, the block_info call for the same number that directly
\* follows it returns the same details and makes no storage call.
C1_CacheIdempotence ==
    \A r \in Requests :
        (GotBlock(r) /\ Followed(r) /\ IsVerifiedInfo(Before(r)))
        => /\ req[r].info = Before(r)
           /\ "load_block" \notin req[r].ops

C1_Witness ==
    \E r \in Requests :
        /\ GotBlock(r) /\ Followed(r) /\ IsVerifiedInfo(Before(r))
        /\ Number(r) >= 1
        /\ req[r].pos = LastFinalizedStr

\* C2: a block_info call that returns a pending block returns the details the
\* storage holds now and leaves the cache without an entry for the number; the
\* block_info call for the same number that directly follows it loads the block
\* from storage again and returns what the storage holds then.
C2_PendingNotCached ==
    \A r \in Requests :
        GotBlock(r) =>
            /\ IsPendingInfo(req[r].info) =>
                  /\ req[r].info = Ok(load_block(Number(r)))
                  /\ Number(r) \notin CacheKeys(cache)
            /\ (Followed(r) /\ IsPendingInfo(Before(r))) =>
                  /\ "load_block" \in req[r].ops
                  /\ IsOk(req[r].info) =>
                        req[r].info = Ok(load_block(Number(r)))

C2_Witness ==
    \E r \in Requests :
        /\ GotBlock(r)
        /\ Followed(r) /\ IsPendingInfo(Before(r))
        /\ IsPendingInfo(req[r].info)
        /\ req[r].info # Before(r)

\* C3: block_by_number for a number no block has yet answers Ok(None) when the
\* storage works, and the cache has no entry for the number; a block_info call
\* that directly follows one that found no block returns the block's details
\* once the block exists.
C3_UnknownBlockAbsent ==
    \A r \in Requests :
        GotBlock(r) =>
            /\ (Number(r) \notin DOMAIN blocks /\ dbUp) =>
                  /\ req[r].info = Ok(None)
                  /\ req[r].resp = Ok(None)
                  /\ Number(r) \notin CacheKeys(cache)
            /\ (/\ Followed(r) /\ Before(r) = Ok(None)
                /\ Number(r) \in DOMAIN blocks /\ IsOk(req[r].info)) =>
                  /\ req[r].info = Ok(Some(blocks[Number(r)]))
                  /\ req[r].resp = Ok(Some(BlockInfoFrom(blocks[Number(r)])))

C3_Witness ==
    \E r \in Requests :
        /\ GotBlock(r)
        /\ Followed(r) /\ Before(r) = Ok(None)
        /\ Number(r) \in DOMAIN blocks
        /\ req[r].resp = Ok(Some(BlockInfoFrom(blocks[Number(r)])))

\* the numeric positions with the numbers they spell
NumericCases ==
    {<<DecimalStr(n), n>> : n \in BlockNumbers}
    \cup {<<(<<"+", "1">>), 1>>, <<(<<"0", "0", "2">>), 2>>}

Resolved(r) == req[r].pc \notin {"idle", "resolve"}

\* C4: a numeric position resolves to the number it spells, without a query
\* for the committed or the verified head, whether the block exists or not;
\* when the resolution returns, no storage operation has been made at all.
C4_NumericPosition ==
    \A r \in Requests : \A c \in NumericCases :
        (Resolved(r) /\ req[r].pos = c[1]) =>
            /\ req[r].resolved = Ok(c[2])
            /\ req[r].ops \cap HeadOps = {}
            /\ req[r].pc \in {"lookup", "page"} => req[r].ops = {}

C4_Witness ==
    \E r \in Requests :
        /\ req[r].pc = "page"
        /\ req[r].pos = DecimalStr(MaxBlock)
        /\ req[r].resolved = Ok(MaxBlock)
        /\ MaxBlock \notin DOMAIN blocks

\* C5: each resolution of "last_committed" ("last_finalized") queries the
\* storage and returns the last committed (last verified) block number the
\* storage holds at that step.
C5_KeywordReadsHead ==
    [][\A r \in Requests :
          (req[r].pc = "resolve" /\ req'[r].pc \notin {"resolve", "idle"}) =>
              /\ req[r].pos = LastCommittedStr =>
                    /\ "get_last_committed_block" \in req'[r].ops
                    /\ req'[r].resolved =
                          IF dbUp THEN Ok(get_last_committed_block)
                          ELSE Err(StorageError)
              /\ req[r].pos = LastFinalizedStr =>
                    /\ "get_last_verified_confirmed_block" \in req'[r].ops
                    /\ req'[r].resolved =
                          IF dbUp THEN Ok(get_last_verified_confirmed_block)
                          ELSE Err(StorageError)]_vars

C5_Witness ==
    \E r \in Requests :
        /\ req[r].pos = LastCommittedStr
        /\ IsOk(req[r].resolved)
        /\ req[r].resolved.val >= 1
        /\ get_last_verified_confirmed_block < req[r].resolved.val
        /\ req[r].resolved.val < get_last_committed_block

\* C6: a position that is neither a u32 in decimal nor one of the two keywords
\* ends the request with InvalidBlockPosition, and no storage operation is made.
C6_InvalidPosition ==
    \A r \in Requests :
        (Resolved(r) /\ req[r].pos \in InvalidPositions) =>
            /\ req[r].pc = "done"
            /\ req[r].resolved = Err(InvalidBlockPosition)
            /\ req[r].resp = Err(InvalidBlockPosition)
            /\ req[r].ops = {}

C6_Witness ==
    \E r \in Requests :
        /\ Done(r)
        /\ req[r].kind = "block_transactions"
        /\ req[r].pos = <<"-", "1">>
        /\ ~dbUp

\* C7: when the resolution of the position fails, the step that resolved it
\* ends the request with that error: block_info is not called, no block is
\* loaded, nothing is paginated, and the cache is as it was.
C7_ResolutionErrorShortCircuits ==
    [][\A r \in Requests :
          (/\ req[r].pc = "resolve"
           /\ req'[r].pc \notin {"resolve", "idle"}
           /\ IsErr(get_block_number_by_position(req[r].pos).res)) =>
              /\ req'[r].pc = "done"
              /\ req'[r].resp = get_block_number_by_position(req[r].pos).res
              /\ req'[r].resolved = req'[r].resp
              /\ req'[r].info = None
              /\ req'[r].ops \cap {"load_block", "paginate"} = {}
              /\ cache' = cache]_vars

C7_Witness ==
    \E r \in Requests :
        /\ Done(r)
        /\ req[r].kind = "block_by_number"
        /\ req[r].pos = LastFinalizedStr
        /\ req[r].resp = Err(StorageError)
        /\ Len(cache) > 0

Listed(r) ==
    /\ Done(r)
    /\ req[r].kind \in {"block_pagination", "block_transactions"}
    /\ IsOk(req[r].resp)
    /\ req[r].kind = "block_transactions" => IsOk(req[r].resolved)

\* C8: a page of blocks or of transactions holds at most query.limit items.
C8_PageWithinLimit ==
    \A r \in Requests :
        Listed(r) => Len(req[r].resp.val.list) <= req[r].query.limit

C8_Witness ==
    \E r \in Requests :
        /\ Listed(r)
        /\ req[r].kind = "block_transactions"
        /\ req[r].query.limit >= 1
        /\ Len(req[r].resp.val.list) = req[r].query.limit
        /\ req[r].resp.val.count > req[r].query.limit

\* C9: every transaction of a page of block b's transactions is a transaction
\* of block b, whatever the tx hash the page starts from.
C9_PageWithinBlock ==
    \A r \in Requests :
        (Listed(r) /\ req[r].kind = "block_transactions") =>
            \A i \in 1..Len(req[r].resp.val.list) :
                /\ req[r].resp.val.list[i].block_number = Some(req[r].resolved.val)
                /\ txs[req[r].resp.val.list[i].tx_hash] = req[r].resolved.val

C9_Witness ==
    \E r \in Requests :
        /\ Listed(r)
        /\ req[r].kind = "block_transactions"
        /\ Len(req[r].resp.val.list) >= 1
        /\ req[r].query.from \in 1..Len(txs)
        /\ txs[req[r].query.from] # req[r].resolved.val

\* C10: a page repeats the limit, the direction and the cursor of its query;
\* for a page of transactions the cursor is the resolved block number with the
\* query's tx hash.
C10_PageEchoesQuery ==
    \A r \in Requests :
        Listed(r) =>
            /\ req[r].resp.val.limit = req[r].query.limit
            /\ req[r].resp.val.direction = req[r].query.direction
            /\ req[r].kind = "block_pagination" =>
                  req[r].resp.val.from = req[r].query.from
            /\ req[r].kind = "block_transactions" =>
                  req[r].resp.val.from =
                      BlockAndTxHash(req[r].resolved.val, req[r].query.from)

C10_Witness ==
    \E r \in Requests :
        /\ Listed(r)
        /\ req[r].kind = "block_transactions"
        /\ req[r].pos = LastCommittedStr
        /\ req[r].query.direction = Older
        /\ req[r].query.limit = MaxLimit
        /\ req[r].resolved.val >= 1

\* C11: the count of a page is the number of items in the query's scope,
\* whatever the limit, the cursor and the direction: for a page of blocks the
\* number of blocks the storage holds, for a page of block b's transactions
\* the number of transactions the storage holds for block b.
C11_CountIsScopeTotal ==
    \A r \in Requests :
        Listed(r) =>
            /\ req[r].kind = "block_pagination" =>
                  req[r].resp.val.count = Cardinality(DOMAIN blocks)
            /\ req[r].kind = "block_transactions" =>
                  req[r].resp.val.count =
                      Cardinality({h \in DOMAIN txs : txs[h] = req[r].resolved.val})

C11_Witness ==
    \E r \in Requests :
        /\ Listed(r)
        /\ req[r].kind = "block_transactions"
        /\ req[r].query.limit = 1
        /\ req[r].query.direction = Older
        /\ req[r].resp.val.count = MaxTxPerBlock
        /\ Len(req[r].resp.val.list) = 1
        /\ Len(txs) > MaxTxPerBlock

\* the cursors the query of request r ranges over, where its page starts, and
\* the cursors of the items of its page
Scope(r) ==
    IF req[r].kind = "block_pagination" THEN DOMAIN blocks
    ELSE {h \in DOMAIN txs : txs[h] = req[r].resolved.val}

From(r) == req[r].query.from

PageCursors(r) ==
    [i \in 1..Len(req[r].resp.val.list) |->
        IF req[r].kind = "block_pagination"
        THEN req[r].resp.val.list[i].block_number
        ELSE req[r].resp.val.list[i].tx_hash]

\* cur lists, in ascending order, the first up-to-limit cursors of the set S
FirstAscending(cur, S, limit) ==
    /\ \A i \in DOMAIN cur : cur[i] \in S
    /\ \A i, j \in DOMAIN cur : i < j => cur[i] < cur[j]
    /\ Len(cur) = Min(limit, Cardinality(S))
    /\ \A c \in S : (\A i \in DOMAIN cur : cur[i] # c) =>
                        \A i \in DOMAIN cur : cur[i] < c

\* C12 (as amended): a page requested with direction Newer holds only items
\* whose cursor is greater than or equal to query.from (the item at from
\* itself is included), in ascending cursor order, and they are the first
\* up-to-limit such items.
C12_NewerFromInclusive ==
    \A r \in Requests :
        (Listed(r) /\ req[r].query.direction = Newer) =>
            FirstAscending(PageCursors(r),
                           {c \in Scope(r) : c >= From(r)},
                           req[r].query.limit)

C12_Witness ==
    \E r \in Requests :
        /\ Listed(r)
        /\ req[r].kind = "block_pagination"
        /\ req[r].query.direction = Newer
        /\ req[r].query.limit = MaxLimit
        /\ From(r) = 1
        /\ Len(PageCursors(r)) = MaxLimit
        /\ PageCursors(r)[1] = 1

\* C12 as stated: a page requested with direction Newer holds only items whose
\* cursor is strictly greater than query.from, in ascending cursor order, the
\* first up-to-limit such items.
C12_NewerStrictlyGreater ==
    \A r \in Requests :
        (Listed(r) /\ req[r].query.direction = Newer) =>
            FirstAscending(PageCursors(r),
                           {c \in Scope(r) : c > From(r)},
                           req[r].query.limit)

\* the block_info call that returned last was for block number n, and the
\* storage has not changed block n since: the block it returned is verified,
\* or it is what the storage holds now
GotBlockStill(n) ==
    /\ IsSome(lastGet)
    /\ lastGet.val.num = n
    /\ IsOk(lastGet.val.info)
    /\ IsSome(lastGet.val.info.val)
    /\ \/ lastGet.val.info.val.val.verified
       \/ lastGet.val.info = Ok(load_block(n))

\* C13: a page of blocks is the storage's own page for the same query; and
\* for a page with direction Newer, limit >= 2 and from = n, where blocks n
\* and n + 1 exist, the second item of the list (list[1], counting from 0)
\* is the BlockInfo block_by_number answered for block n + 1.
C13_ListMatchesGetBlock ==
    \A r \in Requests :
        (Listed(r) /\ req[r].kind = "block_pagination") =>
            /\ req[r].resp = Ok(paginate_blocks(req[r].query))
            /\ (/\ req[r].query.direction = Newer
                /\ req[r].query.limit >= 2
                /\ From(r) \in DOMAIN blocks
                /\ (From(r) + 1) \in DOMAIN blocks
                /\ GotBlockStill(From(r) + 1)) =>
                  /\ Len(req[r].resp.val.list) >= 2
                  /\ Ok(Some(req[r].resp.val.list[2])) =
                         MapBlockInfo(lastGet.val.info)

C13_Witness ==
    \E r \in Requests :
        /\ Listed(r)
        /\ req[r].kind = "block_pagination"
        /\ req[r].query = PaginationQuery(1, MaxLimit, Newer)
        /\ GotBlockStill(2)
        /\ 2 \in CacheKeys(cache)
        /\ req[r].resp.val.list[2].block_number = 2

\* C14: with requests served at the same time, cancelled at any await, the
\* cache holds complete entries only: the entry at key n is the details of
\* block n as the storage holds them, of a verified block, and no key has two
\* entries, also after two requests missed the same key and both loaded the
\* block.
C14_CacheEntriesComplete ==
    /\ \A i \in DOMAIN cache :
          /\ cache[i].key \in DOMAIN blocks
          /\ cache[i].val = blocks[cache[i].key]
          /\ cache[i].val.block_number = cache[i].key
          /\ cache[i].val.verified
    /\ \A i, j \in DOMAIN cache : cache[i].key = cache[j].key => i = j

\* both requests missed block 1 and loaded it; one has stored it and the
\* other is about to
C14_Witness ==
    /\ req[1].pc = "done"
    /\ req[2].pc = "insert"
    /\ req[1].resolved = Ok(1)
    /\ req[2].resolved = Ok(1)
    /\ "load_block" \in req[1].ops
    /\ "load_block" \in req[2].ops
    /\ 1 \in CacheKeys(cache)

\* C15: block_by_number for "last_committed" answers with the block whose
\* number was the last committed one when the position was resolved: the
\* resolution takes the head the storage holds at that step, the number stays
\* the request's through the awaits that follow, whatever is committed
\* meanwhile, and an answer is the info of the block of that number.
C15_LastCommittedAtResolution ==
    [][\A r \in Requests :
          (/\ req[r].kind = "block_by_number"
           /\ req[r].pos = LastCommittedStr
           /\ req'[r] # req[r]
           /\ req'[r].pc # "idle") =>
              /\ (req[r].pc = "resolve" /\ dbUp) =>
                    req'[r].resolved = Ok(get_last_committed_block)
              /\ req[r].pc \in {"lookup", "fetch", "insert"} =>
                    /\ req'[r].resolved = req[r].resolved
                    /\ (req'[r].pc = "done" /\ IsOk(req'[r].resp)) =>
                          req'[r].resp =
                              Ok(Some(BlockInfoFrom(blocks[req[r].resolved.val])))]_vars

\* the answer is block 1, resolved as the head, while the head is block 2
C15_Witness ==
    \E r \in Requests :
        /\ GotBlock(r)
        /\ req[r].pos = LastCommittedStr
        /\ Number(r) = 1
        /\ get_last_committed_block = 2
        /\ req[r].resp = Ok(Some(BlockInfoFrom(blocks[1])))

\* request r is at a step that goes to the storage: the resolution of a
\* keyword, the load of a block the cache does not have, a page
AtStorageStep(r) ==
    \/ req[r].pc = "resolve" /\ req[r].pos \in KeywordPositions
    \/ req[r].pc = "fetch"
    \/ req[r].pc = "page"

\* C16: when the storage fails at a step of block_by_number, block_pagination
\* or block_transactions (the resolution of a keyword, the load of the block,
\* the page), that step ends the request with the storage error and nothing
\* else: no page, no second attempt, not InvalidBlockPosition, not an absent
\* block; the cache is as it was.
C16_StorageFailurePropagates ==
    [][\A r \in Requests :
          (/\ AtStorageStep(r)
           /\ ~dbUp
           /\ req'[r] # req[r]
           /\ req'[r].pc # "idle") =>
              /\ req'[r].pc = "done"
              /\ req'[r].resp = Err(StorageError)
              /\ Cardinality(req'[r].ops \ req[r].ops) <= 1
              /\ cache' = cache]_vars

\* the resolution of the keyword succeeded, the page failed
C16_Witness ==
    \E r \in Requests :
        /\ Done(r)
        /\ req[r].kind = "block_transactions"
        /\ req[r].pos = LastCommittedStr
        /\ IsOk(req[r].resolved)
        /\ req[r].ops = {"get_last_committed_block", "paginate"}
        /\ req[r].resp = Err(StorageError)

\* C17: the cache never holds more entries than its capacity; a step that
\* adds an entry adds one, removing exactly one other entry when the cache was
\* full and none when it was not; no other step removes an entry.
C17_CapacityAndEviction ==
    [][LET added == CacheKeys(cache') \ CacheKeys(cache)
           removed == CacheKeys(cache) \ CacheKeys(cache')
       IN  /\ Len(cache) <= CacheCapacity
           /\ Len(cache') <= CacheCapacity
           /\ Cardinality(CacheKeys(cache')) = Len(cache')
           /\ added # {} =>
                 /\ Cardinality(added) = 1
                 /\ Cardinality(removed) =
                        IF Len(cache) = CacheCapacity THEN 1 ELSE 0
           /\ added = {} => removed = {}]_vars

\* the block_info call that returned last stored its block in the full cache
\* and an entry was removed for it
C17_Witness ==
    /\ IsSome(lastGet)
    /\ Cardinality(lastGet.val.dropped) = 1
    /\ lastGet.val.dropped \cap CacheKeys(cache) = {}
    /\ lastGet.val.num \in CacheKeys(cache)
    /\ Len(cache) = CacheCapacity

\* C18: every answer of block_by_number for a numeric position is the answer
\* of a block_by_number without a cache that reads the storage when the
\* answer is given: the info of the block the storage holds under the number,
\* or none where it holds no block; and while the storage works there is an
\* answer.
C18_CacheTransparent ==
    \A r \in Requests :
        (GotBlock(r) /\ req[r].pos \in NumericPositions) =>
            /\ IsOk(req[r].resp) =>
                  req[r].resp = MapBlockInfo(Ok(load_block(Number(r))))
            /\ dbUp => IsOk(req[r].resp)

\* an answer from the cache, after an entry was removed from the full cache
\* and all blocks were committed
C18_Witness ==
    \E r \in Requests :
        /\ GotBlock(r)
        /\ req[r].pos \in NumericPositions
        /\ "load_block" \notin req[r].ops
        /\ IsOk(req[r].resp)
        /\ IsSome(req[r].prev)
        /\ req[r].prev.val.dropped # {}
        /\ get_last_committed_block = MaxBlock

\* C19: only the block_info steps of block_by_number change the cache: the
\* resolution of a position, block_pagination and block_transactions leave it
\* as it is; and a page of a block's transactions is asked of the storage
\* also when the cache holds the block's details.
C19_OnlyBlockInfoTouchesCache ==
    [][/\ cache' # cache =>
             \E r \in Requests :
                 /\ req[r].kind = "block_by_number"
                 /\ req[r].pc \in {"lookup", "fetch", "insert"}
                 /\ req'[r] # req[r]
       /\ \A r \in Requests :
             (/\ req[r].kind = "block_transactions"
              /\ req[r].pc = "page"
              /\ req'[r].pc = "done") =>
                 /\ "paginate" \in req'[r].ops
                 /\ req'[r].resp =
                        IF dbUp
                        THEN Ok(paginate_transactions(
                                 PaginationQuery(
                                     BlockAndTxHash(req[r].resolved.val,
                                                    req'[r].query.from),
                                     req'[r].query.limit,
                                     req'[r].query.direction)))
                        ELSE Err(StorageError)]_vars

\* the cache holds block 1; its transactions were asked of the storage, which
\* was down
C19_Witness ==
    \E r \in Requests :
        /\ Done(r)
        /\ req[r].kind = "block_transactions"
        /\ req[r].resolved = Ok(1)
        /\ 1 \in CacheKeys(cache)
        /\ req[r].ops = {"paginate"}
        /\ req[r].resp = Err(StorageError)

\* C20: a position of decimal digits that spells a number past u32::MAX, and
\* a negative number, ends the request with InvalidBlockPosition and without
\* any storage operation: no block number comes of it, neither the number
\* modulo 2^32 nor any other; numbers within u32 resolve to themselves.
C20_OutOfRangeRejected ==
    \A r \in Requests :
        Resolved(r) =>
            /\ req[r].pos \in OverflowPositions \cup NegativePositions =>
                  /\ req[r].pc = "done"
                  /\ req[r].resolved = Err(InvalidBlockPosition)
                  /\ req[r].resp = Err(InvalidBlockPosition)
                  /\ req[r].ops = {}
            /\ req[r].pos = DigitChars(<<2, 1, 4, 7, 4, 8, 3, 6, 4, 7>>) =>
                  req[r].resolved = Ok(2147483647)
            /\ req[r].pos = DigitChars(<<0, 0, 0, 0, 0, 0, 0, 0, 0, 0, 1>>) =>
                  req[r].resolved = Ok(1)

\* 2^32 + 1 is rejected while block 1, the number it would wrap to, exists
C20_Witness ==
    \E r \in Requests :
        /\ Done(r)
        /\ req[r].kind = "block_by_number"
        /\ req[r].pos = DigitChars([U32MaxDigits EXCEPT ![10] = 7])
        /\ req[r].resp = Err(InvalidBlockPosition)
        /\ 1 \in DOMAIN blocks
        /\ 1 \in CacheKeys(cache)

====
